---------------------------- MODULE Spec2Model ----------------------------
(***************************************************************************)
(* Wire-format codecs of the Block Storage protocol                        *)
(* (src/block_storage/protocol.rs): the DateTime codec, the VolumeStatus   *)
(* enum codec, the bootable string codec, the Volume decoder and the       *)
(* VolumeCreate encoder.                                                   *)
(*                                                                         *)
(* Text that a parser scans (timestamps) is a sequence of one-character    *)
(* strings; text that is only compared as a whole (enum wire strings, JSON *)
(* keys) is a TLA+ string.                                                 *)
(***************************************************************************)
EXTENDS Integers, Sequences, FiniteSets, TLC

VARIABLES entry, input, pc, result, output, result2

vars == <<entry, input, pc, result, output, result2>>

-----------------------------------------------------------------------------
(* Results: Rust's Result<T, E>.                                           *)

Ok(v) == [ok |-> TRUE, v |-> v]

Err(e) == [ok |-> FALSE, err |-> e]

(* serde::de::Error::custom(msg): the error is the message, and nothing    *)
(* else.  The message is a sequence of parts: [lit |-> text] is literal    *)
(* text of the program, [val |-> x] is an input value formatted into it.   *)
Custom(parts) == [kind |-> "custom", msg |-> parts]

(* serde::de::Error::invalid_value(Unexpected::Str(s), &expected)          *)
InvalidValue(s, expected) ==
    [kind |-> "invalid_value", unexpected |-> s, expected |-> expected]

(* serde::de::Error::invalid_type(unexpected JSON kind, &expected)         *)
InvalidType(jsonKind, expected) ==
    [kind |-> "invalid_type", unexpected |-> jsonKind, expected |-> expected]

(* serde::de::Error::missing_field(name)                                   *)
MissingField(name) == [kind |-> "missing_field", field |-> name]

-----------------------------------------------------------------------------
(* Characters and chrono's scanners (chrono::format::scan).                *)

DigitChars == <<"0", "1", "2", "3", "4", "5", "6", "7", "8", "9">>

IsDigit(c) == \E i \in 1..10 : DigitChars[i] = c

DigitVal(c) == (CHOOSE i \in 1..10 : DigitChars[i] = c) - 1

Min(a, b) == IF a <= b THEN a ELSE b

Drop(s, n) == SubSeq(s, n + 1, Len(s))

StartsWith(s, c) == Len(s) >= 1 /\ s[1] = c

RECURSIVE ToInt(_)
ToInt(ds) ==
    IF ds = <<>> THEN 0
    ELSE 10 * ToInt(SubSeq(ds, 1, Len(ds) - 1)) + DigitVal(ds[Len(ds)])

(* How many of the first `max` characters of s are digits.                 *)
LeadingDigits(s, max) ==
    CHOOSE k \in 0..Min(Len(s), max) :
        /\ \A i \in 1..k : IsDigit(s[i])
        /\ k = Min(Len(s), max) \/ ~IsDigit(s[k + 1])

(* scan::number(s, min, max): at least min and at most max digits; digits  *)
(* past max are left in the input.                                         *)
TakeDigits(s, min, k) ==
    IF k < min THEN Err("INVALID")
    ELSE [ok |-> TRUE, v |-> ToInt(SubSeq(s, 1, k)), rest |-> Drop(s, k)]

scan_number(s, min, max) == TakeDigits(s, min, LeadingDigits(s, max))

(* scan::char(s, c)                                                        *)
scan_char(s, c) ==
    IF StartsWith(s, c) THEN [ok |-> TRUE, rest |-> Drop(s, 1)]
    ELSE Err("INVALID")

Pow10(n) == CASE n = 0 -> 1 [] n = 1 -> 10 [] n = 2 -> 100 [] n = 3 -> 1000
              [] n = 4 -> 10000 [] n = 5 -> 100000 [] n = 6 -> 1000000
              [] n = 7 -> 10000000 [] n = 8 -> 100000000
              [] OTHER -> 1000000000

(* scan::nanosecond(s): one to nine digits scaled to nanoseconds as a      *)
(* decimal fraction; further digits are skipped.                           *)
ScaleDigits(s, k, all) ==
    IF k < 1 THEN Err("INVALID")
    ELSE [ok |-> TRUE, v |-> ToInt(SubSeq(s, 1, k)) * Pow10(9 - k),
          rest |-> Drop(s, all)]

scan_nanosecond(s) ==
    ScaleDigits(s, LeadingDigits(s, 9), LeadingDigits(s, Len(s)))

(* scan::timezone_offset(s, colon required, allow_zulu, minutes required): *)
(* "Z"/"z", or sign, two digits, ":", two digits (minutes 00-59).          *)
(* The minutes of an offset whose hours are read: two digits, 00-59.       *)
OffsetMinutes(neg, hours, u) ==
    IF Len(u) < 2 THEN Err("TOO_SHORT")
    ELSE IF ~(IsDigit(u[1]) /\ IsDigit(u[2])) THEN Err("INVALID")
    ELSE IF DigitVal(u[1]) > 5 THEN Err("OUT_OF_RANGE")
    ELSE [ok |-> TRUE,
          v |-> (IF neg THEN -1 ELSE 1)
                * (hours * 3600 + ToInt(SubSeq(u, 1, 2)) * 60),
          rest |-> Drop(u, 2)]

(* The hours of an offset whose sign is read: two digits, then ":".        *)
OffsetHours(neg, t) ==
    IF Len(t) < 2 THEN Err("TOO_SHORT")
    ELSE IF ~(IsDigit(t[1]) /\ IsDigit(t[2])) THEN Err("INVALID")
    ELSE IF ~StartsWith(Drop(t, 2), ":") THEN Err("INVALID")
    ELSE OffsetMinutes(neg, ToInt(SubSeq(t, 1, 2)), Drop(t, 3))

scan_timezone_offset(s) ==
    IF StartsWith(s, "Z") \/ StartsWith(s, "z")
    THEN [ok |-> TRUE, v |-> 0, rest |-> Drop(s, 1)]
    ELSE IF ~(StartsWith(s, "+") \/ StartsWith(s, "-")) THEN Err("INVALID")
    ELSE OffsetHours(s[1] = "-", Drop(s, 1))

-----------------------------------------------------------------------------
(* The calendar (chrono::NaiveDate, NaiveTime).                            *)

IsLeapYear(y) == y % 4 = 0 /\ (y % 100 # 0 \/ y % 400 = 0)

DaysInMonth(y, m) ==
    CASE m \in {4, 6, 9, 11} -> 30
      [] m = 2 -> IF IsLeapYear(y) THEN 29 ELSE 28
      [] OTHER -> 31

(* NaiveDate::from_ymd_opt                                                 *)
ValidDate(y, m, d) == m \in 1..12 /\ d >= 1 /\ d <= DaysInMonth(y, m)

(* NaiveDate::succ_opt / pred_opt on a date record.                        *)
SuccDay(t) ==
    IF t.day < DaysInMonth(t.year, t.month) THEN [t EXCEPT !.day = t.day + 1]
    ELSE IF t.month < 12 THEN [t EXCEPT !.month = t.month + 1, !.day = 1]
    ELSE [t EXCEPT !.year = t.year + 1, !.month = 1, !.day = 1]

PredDay(t) ==
    IF t.day > 1 THEN [t EXCEPT !.day = t.day - 1]
    ELSE IF t.month > 1
         THEN [t EXCEPT !.month = t.month - 1,
                        !.day = DaysInMonth(t.year, t.month - 1)]
    ELSE [t EXCEPT !.year = t.year - 1, !.month = 12, !.day = 31]

(* Parsed::to_naive_date + to_naive_time: the fields a parser collected,   *)
(* checked, as a NaiveDateTime.  Second 60 is a leap second: second 59     *)
(* with the nanosecond field raised by 10^9.                               *)
to_naive_datetime(y, mo, d, h, mi, s, ns) ==
    IF ~( /\ ValidDate(y, mo, d)
          /\ h \in 0..23 /\ mi \in 0..59 /\ s \in 0..60
          /\ ns \in 0..999999999 )
    THEN Err("OUT_OF_RANGE")
    ELSE Ok([year |-> y, month |-> mo, day |-> d, hour |-> h, minute |-> mi,
             second |-> IF s = 60 THEN 59 ELSE s,
             nano |-> IF s = 60 THEN ns + 1000000000 ELSE ns])

(* NaiveDateTime::overflowing_add_offset: shift by secs (less than a day   *)
(* either way), carrying into the date; the fraction is kept.              *)
SetSecondOfDay(t, r) ==
    [t EXCEPT !.hour = r \div 3600, !.minute = (r % 3600) \div 60,
              !.second = r % 60]

ShiftDay(t, sod) ==
    SetSecondOfDay(IF sod < 0 THEN PredDay(t)
                   ELSE IF sod >= 86400 THEN SuccDay(t) ELSE t,
                   sod % 86400)

AddSeconds(t, secs) ==
    ShiftDay(t, t.hour * 3600 + t.minute * 60 + t.second + secs)

-----------------------------------------------------------------------------
(* JSON values as serde_json hands them to a Deserialize implementation.   *)

(* A string is held as text (JStr) or, where a parser scans it, as its     *)
(* characters (JText).  An object is the sequence of its <<key, value>>    *)
(* entries.                                                                *)
JStr(s) == [t |-> "str", text |-> s]

JText(cs) == [t |-> "str", chars |-> cs]

JBool(b) == [t |-> "bool", b |-> b]

JNum(n) == [t |-> "num", n |-> n]

JNull == [t |-> "null"]

JArr(elems) == [t |-> "arr", elems |-> elems]

JObj(entries) == [t |-> "obj", entries |-> entries]

StrOf(j) == IF "chars" \in DOMAIN j THEN j.chars ELSE j.text

(* String::deserialize: a JSON string, or an invalid-type error.           *)
String_deserialize(j) ==
    IF j.t = "str" THEN Ok(StrOf(j)) ELSE Err(InvalidType(j.t, "a string"))

-----------------------------------------------------------------------------
(* A parse in progress: the input left and the numbers read so far.  Each  *)
(* step passes an earlier failure on, as Rust's `?` does.                  *)

Begin(s) == [ok |-> TRUE, rest |-> s, f |-> <<>>]

Fail(p) == [ok |-> FALSE, rest |-> p.rest, f |-> p.f]

(* The parse after a scanner's result r: its value read, or failed.        *)
Advance(p, r) ==
    IF r.ok THEN [ok |-> TRUE, rest |-> r.rest, f |-> Append(p.f, r.v)]
    ELSE Fail(p)

Num(p, min, max) ==
    IF ~p.ok THEN p ELSE Advance(p, scan_number(p.rest, min, max))

Lit(p, c) ==
    IF ~p.ok THEN p
    ELSE IF StartsWith(p.rest, c) THEN [p EXCEPT !.rest = Drop(p.rest, 1)]
    ELSE Fail(p)

(* One of several characters (RFC 3339's date/time separator).             *)
OneOf(p, cs) ==
    IF ~p.ok THEN p
    ELSE IF Len(p.rest) >= 1 /\ p.rest[1] \in cs
         THEN [p EXCEPT !.rest = Drop(p.rest, 1)]
    ELSE Fail(p)

(* time-secfrac, optional: "." and at least one digit.                     *)
OptSecFrac(p) ==
    IF ~p.ok THEN p
    ELSE IF StartsWith(p.rest, ".")
         THEN Advance(p, scan_nanosecond(Drop(p.rest, 1)))
    ELSE [p EXCEPT !.f = Append(p.f, 0)]

TzOffset(p) ==
    IF ~p.ok THEN p ELSE Advance(p, scan_timezone_offset(p.rest))

IsSpace(c) == c \in {" ", "\t", "\n"}

(* str::trim_start                                                         *)
RECURSIVE TrimStart(_)
TrimStart(s) ==
    IF Len(s) >= 1 /\ IsSpace(s[1]) THEN TrimStart(Drop(s, 1)) ELSE s

(* A numeric item of a strftime pattern (%m %d %H %M %S %f): leading       *)
(* white space is skipped, then one to `width` digits are read.            *)
NumericItem(p, width) ==
    IF ~p.ok THEN p ELSE Num([p EXCEPT !.rest = TrimStart(p.rest)], 1, width)

(* %Y, the signed numeric item: with an explicit sign any number of digits *)
(* is read, without one at most four.                                      *)
Negated(r) == IF r.ok THEN [r EXCEPT !.v = 0 - r.v] ELSE r

SignedYear(p, s) ==
    IF StartsWith(s, "-")
    THEN Advance(p, Negated(scan_number(Drop(s, 1), 1, Len(s))))
    ELSE IF StartsWith(s, "+")
    THEN Advance(p, scan_number(Drop(s, 1), 1, Len(s)))
    ELSE Advance(p, scan_number(s, 1, 4))

YearItem(p) == IF ~p.ok THEN p ELSE SignedYear(p, TrimStart(p.rest))

(* The steps of a parse, one per item of the grammar or pattern.           *)
Step(p, item) ==
    CASE item.k = "digits" -> Num(p, item.min, item.max)
      [] item.k = "lit" -> Lit(p, item.c)
      [] item.k = "oneof" -> OneOf(p, item.cs)
      [] item.k = "secfrac" -> OptSecFrac(p)
      [] item.k = "offset" -> TzOffset(p)
      [] item.k = "numeric" -> NumericItem(p, item.width)
      [] item.k = "year" -> YearItem(p)

RECURSIVE Parse(_, _, _)
Parse(items, i, p) ==
    IF i > Len(items) \/ ~p.ok THEN p
    ELSE Parse(items, i + 1, Step(p, items[i]))

NDigits(n) == [k |-> "digits", min |-> n, max |-> n]

Literal(c) == [k |-> "lit", c |-> c]

Numeric(width) == [k |-> "numeric", width |-> width]

(* RFC 3339's date-time as chrono scans it: 4DIGIT "-" 2DIGIT "-" 2DIGIT,  *)
(* "T" / "t" / " ", 2DIGIT ":" 2DIGIT ":" 2DIGIT, an optional fraction and *)
(* a required offset.                                                      *)
RFC3339Items ==
    << NDigits(4), Literal("-"), NDigits(2), Literal("-"), NDigits(2),
       [k |-> "oneof", cs |-> {"T", "t", " "}],
       NDigits(2), Literal(":"), NDigits(2), Literal(":"), NDigits(2),
       [k |-> "secfrac"], [k |-> "offset"] >>

(* The pattern "%Y-%m-%dT%H:%M:%S.%f" as StrftimeItems reads it.           *)
StrftimeItems ==
    << [k |-> "year"], Literal("-"), Numeric(2), Literal("-"), Numeric(2),
       Literal("T"), Numeric(2), Literal(":"), Numeric(2), Literal(":"),
       Numeric(2), Literal("."), Numeric(9) >>

-----------------------------------------------------------------------------
(* chrono's two parsers, as DateTime::deserialize calls them.              *)

(* Offsets RFC 3339 allows: -23:59 to +23:59, in seconds.                  *)
MAX_RFC3339_OFFSET == (23 * 60 + 59) * 60

(* chrono::DateTime::parse_from_rfc3339(&s): the RFC 3339 date-time and    *)
(* nothing after it, the offset within the range, the fields a real date   *)
(* and time.  The value keeps the instant in UTC and the offset.           *)
(* Parsed::to_datetime: the local time the fields give, less the offset.   *)
to_datetime(n, offset) ==
    IF ~n.ok THEN n
    ELSE Ok([utc |-> AddSeconds(n.v, 0 - offset), offset |-> offset])

rfc3339_parsed(p) ==
    IF ~p.ok \/ p.rest # <<>> THEN Err("INVALID")
    ELSE IF p.f[8] > MAX_RFC3339_OFFSET \/ p.f[8] < 0 - MAX_RFC3339_OFFSET
    THEN Err("OUT_OF_RANGE")
    ELSE to_datetime(to_naive_datetime(p.f[1], p.f[2], p.f[3], p.f[4],
                                       p.f[5], p.f[6], p.f[7]), p.f[8])

parse_from_rfc3339(s) == rfc3339_parsed(Parse(RFC3339Items, 1, Begin(s)))

(* chrono::NaiveDateTime::parse_from_str(&s, "%Y-%m-%dT%H:%M:%S.%f"):      *)
(* %f is the numeric item "nanoseconds since the last whole second": one   *)
(* to nine digits read as an integer count of nanoseconds.                 *)
strftime_parsed(p) ==
    IF ~p.ok \/ p.rest # <<>> THEN Err("INVALID")
    ELSE to_naive_datetime(p.f[1], p.f[2], p.f[3], p.f[4], p.f[5], p.f[6],
                           p.f[7])

parse_from_str(s) == strftime_parsed(Parse(StrftimeItems, 1, Begin(s)))

-----------------------------------------------------------------------------
(* chrono's two formatters, as DateTime::serialize calls them.             *)

RECURSIVE Digits(_)
Digits(n) ==
    IF n < 10 THEN <<DigitChars[n + 1]>>
    ELSE Append(Digits(n \div 10), DigitChars[(n % 10) + 1])

RECURSIVE Zeros(_)
Zeros(k) == IF k <= 0 THEN <<>> ELSE <<"0">> \o Zeros(k - 1)

(* {:0w} of a number >= 0                                                  *)
PadDigits(ds, w) == Zeros(w - Len(ds)) \o ds

Pad(n, w) == PadDigits(Digits(n), w)

(* The year: four digits for 0..9999, else an explicit sign and at least   *)
(* four digits.                                                            *)
FormatYear(y) ==
    IF y >= 0 /\ y <= 9999 THEN Pad(y, 4)
    ELSE IF y < 0 THEN <<"-">> \o Pad(0 - y, 4)
    ELSE <<"+">> \o Pad(y, 4)

FormatDateTime(t) ==
    FormatYear(t.year) \o <<"-">> \o Pad(t.month, 2) \o <<"-">>
    \o Pad(t.day, 2) \o <<"T">> \o Pad(t.hour, 2) \o <<":">>
    \o Pad(t.minute, 2) \o <<":">>
    \o Pad(t.second + (t.nano \div 1000000000), 2)

(* SecondsFormat::AutoSi: no fraction, or 3, 6 or 9 digits.                *)
FormatAutoSi(nano) ==
    IF nano = 0 THEN <<>>
    ELSE IF nano % 1000000 = 0 THEN <<".">> \o Pad(nano \div 1000000, 3)
    ELSE IF nano % 1000 = 0 THEN <<".">> \o Pad(nano \div 1000, 6)
    ELSE <<".">> \o Pad(nano, 9)

(* The offset as +HH:MM / -HH:MM, never "Z".                               *)
FormatSignedMinutes(sign, minutes) ==
    <<sign>> \o Pad(minutes \div 60, 2) \o <<":">> \o Pad(minutes % 60, 2)

FormatOffset(off) ==
    IF off < 0 THEN FormatSignedMinutes("-", (30 - off) \div 60)
    ELSE FormatSignedMinutes("+", (off + 30) \div 60)

(* to_rfc3339 printing the UTC fields next to the offset, the offset not   *)
(* added.                                                                  *)
to_rfc3339_utc(dt) ==
    FormatDateTime(dt.utc)
    \o FormatAutoSi(dt.utc.nano % 1000000000) \o FormatOffset(dt.offset)

(* chrono::DateTime<FixedOffset>::to_rfc3339(): the local time            *)
(* (UTC + offset), the fraction, the offset.                               *)
to_rfc3339(dt) ==
    FormatDateTime(AddSeconds(dt.utc, dt.offset))
    \o FormatAutoSi(dt.utc.nano % 1000000000) \o FormatOffset(dt.offset)

(* NaiveDateTime::format("%Y-%m-%dT%H:%M:%S.%f").to_string(): %f prints    *)
(* the nanoseconds as an integer, zero-padded to nine digits.              *)
format_naive(t) ==
    FormatDateTime(t) \o <<".">> \o Pad(t.nano % 1000000000, 9)

-----------------------------------------------------------------------------
(* enum DateTime and its serde implementations.                            *)

WithTz(dt) == [variant |-> "WithTz", utc |-> dt.utc, offset |-> dt.offset]

WithoutTz(ndt) == [variant |-> "WithoutTz", naive |-> ndt]

(* The match with the pattern parser's own error text passed on in place   *)
(* of the fixed message.                                                   *)
DateTime_match_passing(a, b) ==
    IF a.ok THEN Ok(WithTz(a.v))
    ELSE IF b.ok THEN Ok(WithoutTz(b.v))
    ELSE Err(Custom(<<[lit |-> "input contains invalid characters"]>>))

(* impl Deserialize for DateTime                                           *)
(* The match over the two parsers' results: the RFC 3339 result if it is   *)
(* Ok, else the pattern's result if it is Ok, else the error.              *)
DateTime_match(a, b) ==
    IF a.ok THEN Ok(WithTz(a.v))
    ELSE IF b.ok THEN Ok(WithoutTz(b.v))
    ELSE Err(Custom(<<[lit |-> "invalid date format"]>>))

DateTime_from_string(s) ==
    IF ~s.ok THEN s
    ELSE DateTime_match(parse_from_rfc3339(s.v), parse_from_str(s.v))

DateTime_deserialize(j) == DateTime_from_string(String_deserialize(j))

(* impl Serialize for DateTime                                             *)
DateTime_serialize(dt) ==
    IF dt.variant = "WithTz" THEN JText(to_rfc3339(dt))
    ELSE JText(format_naive(dt.naive))

-----------------------------------------------------------------------------
(* protocol_enum! { enum VolumeStatus { ... } }                            *)

(* The table with ErrorRestoring's wire string pasted from its neighbour.   *)
VolumeStatusTable_pasted ==
    << <<"Creating", "creating">>, <<"Available", "available">>,
       <<"Reserved", "reserved">>, <<"Attaching", "attaching">>,
       <<"Detaching", "detaching">>, <<"InUse", "in-use">>,
       <<"Maintenance", "maintenance">>, <<"Deleting", "deleting">>,
       <<"AwaitingTransfer", "awaiting-transfer">>, <<"Error", "error">>,
       <<"ErrorDeleting", "error_deleting">>, <<"BackingUp", "backing-up">>,
       <<"RestoringBackup", "restoring-backup">>,
       <<"ErrorBackingUp", "error_backing-up">>,
       <<"ErrorRestoring", "error_extending">>,
       <<"ErrorExtending", "error_extending">>,
       <<"Downloading", "downloading">>, <<"Uploading", "uploading">>,
       <<"Retyping", "retyping">>, <<"Extending", "extending">> >>

(* The variants and their wire strings, in the order of the declaration.   *)
VolumeStatusTable ==
    << <<"Creating", "creating">>, <<"Available", "available">>,
       <<"Reserved", "reserved">>, <<"Attaching", "attaching">>,
       <<"Detaching", "detaching">>, <<"InUse", "in-use">>,
       <<"Maintenance", "maintenance">>, <<"Deleting", "deleting">>,
       <<"AwaitingTransfer", "awaiting-transfer">>, <<"Error", "error">>,
       <<"ErrorDeleting", "error_deleting">>, <<"BackingUp", "backing-up">>,
       <<"RestoringBackup", "restoring-backup">>,
       <<"ErrorBackingUp", "error_backing-up">>,
       <<"ErrorRestoring", "error_restoring">>,
       <<"ErrorExtending", "error_extending">>,
       <<"Downloading", "downloading">>, <<"Uploading", "uploading">>,
       <<"Retyping", "retyping">>, <<"Extending", "extending">> >>

VolumeStatusVariants ==
    {VolumeStatusTable[i][1] : i \in 1..Len(VolumeStatusTable)}

(* The macro's Deserialize: the string is matched against the wire strings *)
(* arm by arm, first match wins; any other string is an error that quotes  *)
(* it.                                                                     *)
protocol_enum_match(table, name, s) ==
    IF ~s.ok THEN s
    ELSE IF \E i \in 1..Len(table) : table[i][2] = s.v
    THEN Ok(table[CHOOSE i \in 1..Len(table) :
                    /\ table[i][2] = s.v
                    /\ \A k \in 1..(i - 1) : table[k][2] # s.v][1])
    ELSE Err(Custom(<<[lit |-> "Unexpected "], [lit |-> name],
                      [lit |-> ": "], [val |-> s.v]>>))

protocol_enum_deserialize(table, name, j) ==
    protocol_enum_match(table, name, String_deserialize(j))

(* The macro's Serialize: the variant's wire string.                       *)
protocol_enum_serialize(table, v) ==
    JStr(table[CHOOSE i \in 1..Len(table) : table[i][1] = v][2])

VolumeStatus_deserialize(j) ==
    protocol_enum_deserialize(VolumeStatusTable, "VolumeStatus", j)

VolumeStatus_serialize(v) == protocol_enum_serialize(VolumeStatusTable, v)

-----------------------------------------------------------------------------
(* fn bool_from_bootable_string                                            *)

(* The match with the capitalised spellings taken as well.                 *)
bootable_match_folding(s) ==
    IF ~s.ok THEN s
    ELSE IF s.v \in {"true", "True", "TRUE"} THEN Ok(TRUE)
    ELSE IF s.v \in {"false", "False", "FALSE"} THEN Ok(FALSE)
    ELSE Err(InvalidValue(s.v, "true or false"))

(* The match over the string: "true", "false", other.                      *)
bootable_match(s) ==
    IF ~s.ok THEN s
    ELSE IF s.v = "true" THEN Ok(TRUE)
    ELSE IF s.v = "false" THEN Ok(FALSE)
    ELSE Err(InvalidValue(s.v, "true or false"))

bool_from_bootable_string(j) == bootable_match(String_deserialize(j))

-----------------------------------------------------------------------------
(* The structs that derive Deserialize.  A field is its Rust name, its     *)
(* wire key (serde(rename)), its type and whether the type is Option<_>.   *)

Fld(name, key, ty, opt) == [name |-> name, key |-> key, ty |-> ty, opt |-> opt]

VolumeAttachmentFields ==
    << Fld("server_id", "server_id", "String", FALSE),
       Fld("attachment_id", "attachment_id", "String", FALSE),
       Fld("attached_at", "attached_at", "String", FALSE),
       Fld("host_name", "host_name", "String", TRUE),
       Fld("volume_id", "volume_id", "String", FALSE),
       Fld("device", "device", "String", FALSE),
       Fld("id", "id", "String", FALSE) >>

LinkFields ==
    << Fld("rel", "rel", "String", FALSE),
       Fld("href", "href", "String", FALSE) >>

VolumeFields ==
    << Fld("migration_status", "migration_status", "String", TRUE),
       Fld("attachments", "attachments", "Vec<VolumeAttachment>", FALSE),
       Fld("links", "links", "Vec<Link>", FALSE),
       Fld("availability_zone", "availability_zone", "String", TRUE),
       Fld("host", "os-vol-host-attr:host", "String", TRUE),
       Fld("encrypted", "encrypted", "bool", FALSE),
       Fld("encryption_key_id", "encryption_key_id", "String", TRUE),
       Fld("updated_at", "updated_at", "DateTime", TRUE),
       Fld("replication_status", "replication_status", "String", TRUE),
       Fld("snapshot_id", "snapshot_id", "String", TRUE),
       Fld("id", "id", "String", FALSE),
       Fld("size", "size", "u64", FALSE),
       Fld("user_id", "user_id", "String", FALSE),
       Fld("tenant_id", "os-vol-tenant-attr:tenant_id", "String", TRUE),
       Fld("metadata", "metadata", "HashMap", FALSE),
       Fld("status", "status", "VolumeStatus", FALSE),
       Fld("image_metadata", "volume_image_metadata", "HashMap", TRUE),
       Fld("description", "description", "String", TRUE),
       Fld("multi_attachable", "multiattach", "bool", FALSE),
       Fld("source_volume_id", "source_volid", "String", TRUE),
       Fld("consistency_group_id", "consistencygroup_id", "String", TRUE),
       Fld("name_id", "os-vol-mig-status-attr:name_id", "String", TRUE),
       Fld("name", "name", "String", FALSE),
       Fld("bootable", "bootable", "bool_from_bootable_string", FALSE),
       Fld("created_at", "created_at", "DateTime", FALSE),
       Fld("volumes", "volumes", "Vec<Volume>", TRUE),
       Fld("volume_type", "volume_type", "String", FALSE),
       Fld("volume_type_id", "volume_type_id", "HashMap", TRUE),
       Fld("group_id", "group_id", "String", TRUE),
       Fld("volumes_links", "volumes_links", "Vec<String>", TRUE),
       Fld("provider_id", "provider_id", "String", TRUE),
       Fld("service_id", "service_uuid", "String", TRUE),
       Fld("shared_targets", "shared_targets", "bool", TRUE),
       Fld("cluster_name", "cluster_name", "String", TRUE),
       Fld("consumes_quota", "consumes_quota", "bool", TRUE),
       Fld("count", "count", "u64", TRUE) >>

VolumeRootFields == << Fld("volume", "volume", "Volume", FALSE) >>

VolumesRootFields == << Fld("volumes", "volumes", "Vec<Volume>", FALSE) >>

(* The field table of a struct type.                                       *)
StructFields(ty) ==
    CASE ty = "Volume" -> VolumeFields
      [] ty = "VolumeAttachment" -> VolumeAttachmentFields
      [] ty = "Link" -> LinkFields
      [] ty = "VolumeRoot" -> VolumeRootFields
      [] ty = "VolumesRoot" -> VolumesRootFields

IsStruct(ty) ==
    ty \in {"Volume", "VolumeAttachment", "Link", "VolumeRoot", "VolumesRoot"}

(* Vec<T>'s element type.                                                  *)
ElemType(ty) ==
    CASE ty = "Vec<VolumeAttachment>" -> "VolumeAttachment"
      [] ty = "Vec<Link>" -> "Link"
      [] ty = "Vec<Volume>" -> "Volume"
      [] ty = "Vec<String>" -> "String"

IsVec(ty) ==
    ty \in {"Vec<VolumeAttachment>", "Vec<Link>", "Vec<Volume>", "Vec<String>"}

(* Option<T>                                                               *)
None == [some |-> FALSE]

Some(x) == [some |-> TRUE, v |-> x]

(* bool::deserialize taking the strings "true" and "false" as well.        *)
bool_deserialize_lenient(j) ==
    IF j.t = "bool" THEN Ok(j.b)
    ELSE IF j.t = "str" /\ StrOf(j) \in {"true", "false"}
    THEN Ok(StrOf(j) = "true")
    ELSE Err(InvalidType(j.t, "a boolean"))

(* bool::deserialize: a native JSON boolean only.                          *)
bool_deserialize(j) ==
    IF j.t = "bool" THEN Ok(j.b) ELSE Err(InvalidType(j.t, "a boolean"))

(* u64::deserialize: a JSON number that is not negative.                   *)
u64_deserialize(j) ==
    IF j.t # "num" THEN Err(InvalidType(j.t, "u64"))
    ELSE IF j.n < 0 THEN Err(InvalidValue(j.n, "u64"))
    ELSE Ok(j.n)

(* HashMap<String, String>::deserialize: a JSON object whose values are    *)
(* strings; of a repeated key the last value stays.                        *)
HashMap_deserialize(j) ==
    IF j.t # "obj" THEN Err(InvalidType(j.t, "a map"))
    ELSE LET e == j.entries
             bad == {i \in 1..Len(e) : e[i][2].t # "str"}
         IN  IF bad # {}
             THEN Err(InvalidType(e[CHOOSE i \in bad : \A k \in bad : i <= k][2].t,
                                  "a string"))
             ELSE Ok([k \in {e[i][1] : i \in 1..Len(e)} |->
                        e[CHOOSE i \in 1..Len(e) :
                            /\ e[i][1] = k
                            /\ \A m \in 1..Len(e) : e[m][1] = k => m <= i][2].text])

RECURSIVE DecodeValue(_, _)
RECURSIVE DecodeSeq(_, _, _, _)
RECURSIVE DecodeElem(_, _, _, _, _)
RECURSIVE VisitMap(_, _, _, _)

(* A missing Option field given its type's default in place of None.       *)
MissingValue_defaulting(f) ==
    IF f.opt THEN Ok(Some("")) ELSE Err(MissingField(f.key))

(* What a field that the object does not hold decodes to: None for an      *)
(* Option, else the error "missing field".                                 *)
MissingValue(f) == IF f.opt THEN Ok(None) ELSE Err(MissingField(f.key))

(* One field's value: Option<T> takes null as None and anything else as    *)
(* Some(T); the error of the field's decoder is passed on as it is.        *)
OkSome(r) == IF r.ok THEN Ok(Some(r.v)) ELSE r

DecodeField(f, j) ==
    IF f.opt /\ j.t = "null" THEN Ok(None)
    ELSE IF f.opt THEN OkSome(DecodeValue(f.ty, j))
    ELSE DecodeValue(f.ty, j)

(* The derived visit_map's end: every field the object did not hold gets   *)
(* its missing value, the first error in declaration order wins.           *)
Finish(fields, acc) ==
    LET missing == {i \in 1..Len(fields) :
                      /\ fields[i].name \notin DOMAIN acc
                      /\ ~MissingValue(fields[i]).ok}
    IN  IF missing # {}
        THEN MissingValue(fields[CHOOSE i \in missing :
                                    \A k \in missing : i <= k])
        ELSE Ok([n \in {fields[i].name : i \in 1..Len(fields)} |->
                   IF n \in DOMAIN acc THEN acc[n]
                   ELSE MissingValue(fields[CHOOSE i \in 1..Len(fields) :
                                               fields[i].name = n]).v])

(* The derived visit_map: the object's entries in their order.  A known    *)
(* key seen twice is an error, a key that is no field is skipped, a value  *)
(* that fails to decode ends the decode with that error.                   *)
RECURSIVE VisitEntry(_, _, _, _, _)
RECURSIVE VisitValue(_, _, _, _, _, _)

VisitMap(fields, entries, i, acc) ==
    IF i > Len(entries) THEN Finish(fields, acc)
    ELSE IF \A n \in 1..Len(fields) : fields[n].key # entries[i][1]
    THEN VisitMap(fields, entries, i + 1, acc)
    ELSE VisitEntry(fields, entries, i, acc,
                    fields[CHOOSE n \in 1..Len(fields) :
                              fields[n].key = entries[i][1]])

(* The entry i, whose key is field f's, and then its decoded value r.      *)
VisitEntry(fields, entries, i, acc, f) ==
    IF f.name \in DOMAIN acc
    THEN Err([kind |-> "duplicate_field", field |-> f.key])
    ELSE VisitValue(fields, entries, i, acc, f, DecodeField(f, entries[i][2]))

VisitValue(fields, entries, i, acc, f, r) ==
    IF ~r.ok THEN r
    ELSE VisitMap(fields, entries, i + 1, (f.name :> r.v) @@ acc)

(* Vec<T>::deserialize leaving out an element that fails to decode.        *)
DecodeElem_lenient(ty, elems, i, acc, r) ==
    IF ~r.ok THEN DecodeSeq(ty, elems, i + 1, acc)
    ELSE DecodeSeq(ty, elems, i + 1, Append(acc, r.v))

(* Vec<T>::deserialize: the elements in order, the first error wins.       *)
DecodeSeq(ty, elems, i, acc) ==
    IF i > Len(elems) THEN Ok(acc)
    ELSE DecodeElem(ty, elems, i, acc, DecodeValue(ty, elems[i]))

(* The element i, decoded to r.                                            *)
DecodeElem(ty, elems, i, acc, r) ==
    IF ~r.ok THEN r
    ELSE DecodeSeq(ty, elems, i + 1, Append(acc, r.v))

(* T::deserialize for the types of the fields.                             *)
DecodeValue(ty, j) ==
    CASE ty = "String" -> String_deserialize(j)
      [] ty = "bool" -> bool_deserialize(j)
      [] ty = "u64" -> u64_deserialize(j)
      [] ty = "DateTime" -> DateTime_deserialize(j)
      [] ty = "VolumeStatus" -> VolumeStatus_deserialize(j)
      [] ty = "bool_from_bootable_string" -> bool_from_bootable_string(j)
      [] ty = "HashMap" -> HashMap_deserialize(j)
      [] IsVec(ty) ->
            IF j.t # "arr" THEN Err(InvalidType(j.t, "a sequence"))
            ELSE DecodeSeq(ElemType(ty), j.elems, 1, <<>>)
      [] IsStruct(ty) ->
            IF j.t # "obj" THEN Err(InvalidType(j.t, ty))
            ELSE VisitMap(StructFields(ty), j.entries, 1, <<>>)

Volume_deserialize(j) == DecodeValue("Volume", j)

VolumeRoot_deserialize(j) == DecodeValue("VolumeRoot", j)

VolumesRoot_deserialize(j) == DecodeValue("VolumesRoot", j)

-----------------------------------------------------------------------------
(* struct VolumeCreate, which derives Serialize.                           *)

(* A field to serialize: its Rust name, its wire key, and whether it has   *)
(* skip_serializing_if = "Option::is_none".                                *)
SerFld(name, key, skip) == [name |-> name, key |-> key, skip |-> skip]

VolumeCreateFields ==
    << SerFld("size", "size", FALSE),
       SerFld("availability_zone", "availability_zone", TRUE),
       SerFld("source_volume_id", "source_volid", TRUE),
       SerFld("description", "description", TRUE),
       SerFld("snapshot_id", "snapshot_id", TRUE),
       SerFld("backup_id", "backup_id", TRUE),
       SerFld("name", "name", FALSE),
       SerFld("image_id", "imageRef", TRUE),
       SerFld("volume_type", "volume_type", TRUE),
       SerFld("metadata", "metadata", TRUE),
       SerFld("consistency_group_id", "consistency_group_id", TRUE) >>

(* VolumeCreate::new(size)                                                 *)
VolumeCreate_new(size) ==
    [size |-> size, availability_zone |-> None, source_volume_id |-> None,
     description |-> None, snapshot_id |-> None, backup_id |-> None,
     name |-> "", image_id |-> None, volume_type |-> None,
     metadata |-> None, consistency_group_id |-> None]

(* Serialize of a field's value: u64 as a number, String as a string, a    *)
(* HashMap as an object, Option<T> as null or as T.                        *)
SerializeValue(name, x) ==
    CASE name = "size" -> JNum(x)
      [] name = "name" -> JStr(x)
      [] ~x.some -> JNull
      [] name = "metadata" ->
            JObj([i \in 1..Len(x.v) |-> <<x.v[i][1], JStr(x.v[i][2])>>])
      [] OTHER -> JStr(x.v)

(* No field is left out: a None is written as null.                        *)
Skipped_never(f, x) == FALSE

(* Whether the derived Serialize leaves the field out.                     *)
Skipped(f, x) == f.skip /\ ~x.some

(* The derived Serialize of a struct: the fields in declaration order,     *)
(* each under its wire key, the skipped ones left out.                     *)
RECURSIVE SerializeFields(_, _, _)
SerializeFields(fields, value, i) ==
    IF i > Len(fields) THEN <<>>
    ELSE LET f == fields[i]
             rest == SerializeFields(fields, value, i + 1)
         IN  IF Skipped(f, value[f.name]) THEN rest
             ELSE << <<f.key, SerializeValue(f.name, value[f.name])>> >> \o rest

VolumeCreate_serialize(value) ==
    JObj(SerializeFields(VolumeCreateFields, value, 1))

(* struct VolumeCreateRoot { volume: VolumeCreate }                        *)
VolumeCreateRoot_serialize(value) ==
    JObj(<< <<"volume", VolumeCreate_serialize(value)>> >>)

-----------------------------------------------------------------------------
(* The inputs of the model.                                                *)

(* The most digits of a timestamp's fraction in an input.                  *)
MaxFracDigits == 10

(* How deep an input nests volumes in a volume's "volumes" list.           *)
MaxDepth == 1

(* How many keys of the base volume object an input changes.               *)
MaxChanges == 1

(* Dates: plain, a leap day, a day that does not exist, short fields, and
   dates at the edge of a year. *)
DateParts ==
    { <<"2", "0", "2", "4", "-", "0", "1", "-", "1", "5">>,
      <<"2", "0", "2", "4", "-", "0", "2", "-", "2", "9">>,
      <<"2", "0", "2", "3", "-", "0", "2", "-", "2", "9">>,
      <<"2", "0", "2", "4", "-", "1", "-", "5">>,
      <<"0", "0", "0", "0", "-", "0", "1", "-", "0", "1">>,
      <<"2", "0", "2", "4", "-", "1", "2", "-", "3", "1">> }

(* The date/time separator. *)
SepParts ==
    { <<"T">>,
      <<" ">> }

(* Times: plain, a leap second, shortly after midnight, no such hour. *)
TimeParts ==
    { <<"1", "0", ":", "3", "0", ":", "0", "0">>,
      <<"2", "3", ":", "5", "9", ":", "6", "0">>,
      <<"0", "0", ":", "1", "5", ":", "0", "7">>,
      <<"2", "5", ":", "0", "0", ":", "0", "0">> }

(* Offsets: none, Zulu, east, west, zero, the extremes RFC 3339 allows and
   does not allow, and one without its colon. *)
OffsetParts ==
    { <<>>,
      <<"Z">>,
      <<"+", "0", "2", ":", "0", "0">>,
      <<"-", "0", "5", ":", "3", "0">>,
      <<"+", "0", "0", ":", "0", "0">>,
      <<"-", "2", "3", ":", "5", "9">>,
      <<"+", "2", "4", ":", "0", "0">>,
      <<"+", "0", "2", "0", "0">> }

(* Digits of a fraction: the first n of 1234567890..., of 0000..., and of   *)
(* 1200000...                                                              *)
FracDigits(stream, n) ==
    [i \in 1..n |->
        CASE stream = 1 -> DigitChars[(i % 10) + 1]
          [] stream = 2 -> "0"
          [] OTHER -> IF i <= 2 THEN DigitChars[i + 1] ELSE "0"]

(* No fraction, or "." and up to MaxFracDigits digits.                     *)
FracParts ==
    {<<>>} \cup {<<".">> \o FracDigits(st, n) : st \in 1..3, n \in 0..MaxFracDigits}

(* The strings given to DateTime::deserialize.                             *)
DateStrings ==
    {d \o s \o t \o f \o o :
        d \in DateParts, s \in SepParts, t \in TimeParts, f \in FracParts,
        o \in OffsetParts}
    \cup { <<"n", "o", "t", "-", "a", "-", "d", "a", "t", "e">>, <<>>,
           <<"+", "2", "0", "2", "4", "-", "0", "1", "-", "1", "5", "T", "1", "0", ":", "3", "0", ":", "0", "0", ".", "5">>,
           <<"-", "0", "0", "4", "4", "-", "0", "3", "-", "1", "5", "T", "1", "0", ":", "3", "0", ":", "0", "0", ".", "5">>,
           <<"2", "0", "2", "4", "-", "0", "1", "-", "1", "5", "T", " ", "9", ":", "0", "5", ":", "0", "3", ".", "2", "5", "0", "0", "0", "0">> }

DateTimeInputs == {JText(s) : s \in DateStrings} \cup {JNull, JNum(1705314600)}

VolumeStatusWireStrings ==
    {VolumeStatusTable[i][2] : i \in 1..Len(VolumeStatusTable)}

(* Strings given to VolumeStatus's Deserialize: the wire strings, and      *)
(* spellings near them.                                                    *)
VolumeStatusInputs ==
    {JStr(s) : s \in VolumeStatusWireStrings \cup
        {"In-Use", "in_use", "IN-USE", "InUse", " available", "available ",
         "Available", "", "error-deleting", "error_backing_up", "unknown"}}
    \cup {JNull, JBool(TRUE)}

(* Values given to bool_from_bootable_string.                              *)
BootableInputs ==
    {JStr(s) : s \in {"true", "false", "True", "TRUE", "False", "FALSE", "1",
                      "0", "", " true", "true ", "yes", "no"}}
    \cup {JBool(TRUE), JBool(FALSE), JNull, JNum(1)}

HasKey(obj, k) == \E i \in 1..Len(obj.entries) : obj.entries[i][1] = k

Get(obj, k) == obj.entries[CHOOSE i \in 1..Len(obj.entries) : obj.entries[i][1] = k][2]

(* The object without its entries under k.                                 *)
Remove(obj, k) == JObj(SelectSeq(obj.entries, LAMBDA e : e[1] # k))

(* The object with k's value replaced by x (appended when k is absent).    *)
Set(obj, k, x) ==
    IF HasKey(obj, k)
    THEN JObj([i \in 1..Len(obj.entries) |->
                 IF obj.entries[i][1] = k THEN <<k, x>> ELSE obj.entries[i]])
    ELSE JObj(Append(obj.entries, <<k, x>>))

(* The object with one more entry under k, whether or not it has one.      *)
AddEntry(obj, k, x) == JObj(Append(obj.entries, <<k, x>>))

ValidAttachment ==
    JObj(<< <<"server_id", JStr("s1")>>, <<"attachment_id", JStr("a1")>>,
            <<"attached_at", JStr("2024-01-15T10:31:00.000000")>>,
            <<"volume_id", JStr("v1")>>, <<"device", JStr("/dev/vdb")>>,
            <<"id", JStr("v1")>> >>)

ValidLink ==
    JObj(<< <<"rel", JStr("self")>>, <<"href", JStr("http://h/v1")>> >>)

(* A volume object with every required key, valid, and no optional key.    *)
BaseVolume ==
    JObj(<< <<"id", JStr("v1")>>, <<"name", JStr("vol")>>,
            <<"user_id", JStr("u1")>>, <<"size", JNum(10)>>,
            <<"encrypted", JBool(FALSE)>>, <<"multiattach", JBool(TRUE)>>,
            <<"bootable", JStr("true")>>, <<"volume_type", JStr("ssd")>>,
            <<"created_at",
              JText(<<"2", "0", "2", "4", "-", "0", "1", "-", "1", "5", "T", "1", "0", ":", "3", "0", ":", "0", "0", ".", "0", "0", "0", "0", "0", "0">>)>>,
            <<"status", JStr("in-use")>>, <<"metadata", JObj(<<>>)>>,
            <<"attachments", JArr(<<>>)>>, <<"links", JArr(<<>>)>> >>)

(* The keys of the struct's fields that are not Option<_>.                 *)
RequiredKeys(fields) ==
    {fields[i].key : i \in {n \in 1..Len(fields) : ~fields[n].opt}}

OptionalKeys(fields) ==
    {fields[i].key : i \in {n \in 1..Len(fields) : fields[n].opt}}

(* Lists of nested volumes, nested at most d deep.                         *)
RECURSIVE NestedVolumes(_)
NestedVolumes(d) ==
    IF d = 0 THEN {}
    ELSE LET inner == {BaseVolume, Remove(BaseVolume, "id"),
                       Set(BaseVolume, "status", JStr("bogus"))}
                      \cup {Set(BaseVolume, "volumes", n) :
                               n \in NestedVolumes(d - 1)}
         IN  {JArr(<<>>)} \cup {JArr(<<v>>) : v \in inner}
             \cup {JArr(<<BaseVolume, v>>) : v \in inner}

(* What an input may put under a key instead of the base object's value.   *)
Alternatives(k) ==
    CASE k = "status" -> {JStr("available"), JStr("In-Use"), JStr("bogus")}
      [] k = "bootable" -> {JStr("false"), JStr("yes"), JBool(TRUE), JBool(FALSE)}
      [] k = "created_at" ->
            {JText(<<"2", "0", "2", "4", "-", "0", "1", "-", "1", "5", "T", "1", "0", ":", "3", "0", ":", "0", "0", "+", "0", "2", ":", "0", "0">>),
             JText(<<"n", "o", "t", "-", "a", "-", "d", "a", "t", "e">>)}
      [] k = "updated_at" ->
            {JText(<<"2", "0", "2", "4", "-", "0", "1", "-", "1", "6", "T", "0", "8", ":", "0", "0", ":", "0", "0", ".", "0", "0", "0", "0", "0", "0">>),
             JText(<<"2", "0", "2", "4", "-", "0", "1", "-", "1", "6", " ", "0", "8", ":", "0", "0", ":", "0", "0">>), JNull}
      [] k = "encrypted" -> {JBool(TRUE), JStr("true"), JStr("false")}
      [] k = "multiattach" -> {JStr("true"), JStr("false")}
      [] k = "shared_targets" -> {JBool(TRUE), JStr("true"), JStr("false")}
      [] k = "consumes_quota" -> {JBool(FALSE), JStr("true"), JStr("false")}
      [] k = "size" -> {JNum(0), JNum(-1), JStr("10")}
      [] k = "id" -> {JNull}
      [] k = "description" -> {JStr(""), JNull}
      [] k = "count" -> {JNum(0)}
      [] k = "volume_image_metadata" -> {JObj(<<>>)}
      [] k = "volumes_links" -> {JArr(<<>>)}
      [] k = "attachments" ->
            {JArr(<<ValidAttachment>>),
             JArr(<<ValidAttachment, Remove(ValidAttachment, "device")>>)}
      [] k = "links" -> {JArr(<<ValidLink>>), JArr(<<Remove(ValidLink, "rel")>>)}
      [] k = "volumes" -> NestedVolumes(MaxDepth)
      [] k = "extra" -> {JNum(1)}
      [] OTHER -> {}

ChangedKeys ==
    {"status", "bootable", "created_at", "updated_at", "encrypted",
     "multiattach", "shared_targets", "consumes_quota", "size", "id",
     "description", "count", "volume_image_metadata", "volumes_links",
     "attachments", "links", "volumes", "extra"}

(* One change of an object: a key removed, set to an alternative, or       *)
(* ("id" only) given a second entry.                                       *)
Changes(obj) ==
    {Remove(obj, k) : k \in {r \in RequiredKeys(VolumeFields) : HasKey(obj, r)}}
    \cup UNION {{Set(obj, k, x) : x \in Alternatives(k)} : k \in ChangedKeys}
    \cup {AddEntry(obj, "id", JStr("v2"))}

(* The volume objects given to the decoders: the base object after at most *)
(* n changes.                                                              *)
RECURSIVE VolumeObjects(_)
VolumeObjects(n) ==
    IF n = 0 THEN {BaseVolume}
    ELSE LET prev == VolumeObjects(n - 1)
         IN  prev \cup UNION {Changes(o) : o \in prev}

(* Volume objects with two flaws at once: a missing key next to a value    *)
(* of the wrong kind, two refused values, a refused optional value next to *)
(* a refused required one.                                                 *)
TwoFlaws ==
    {Set(Remove(BaseVolume, "id"), "size", JNum(-1)),
     Set(Remove(BaseVolume, "id"), "bootable", JBool(FALSE)),
     Set(Remove(BaseVolume, "links"), "status", JStr("bogus")),
     Set(Set(BaseVolume, "status", JStr("bogus")), "bootable", JStr("yes")),
     Set(Set(BaseVolume, "shared_targets", JStr("true")), "status", JStr("bogus")),
     Set(Set(BaseVolume, "description", JNull), "count", JNum(0))}

VolumeInputs == VolumeObjects(MaxChanges) \cup TwoFlaws \cup {JNull}

VolumeRootInputs ==
    {JObj(<< <<"volume", v>> >>) : v \in VolumeInputs} \cup {JObj(<<>>)}

VolumesRootInputs ==
    {JObj(<< <<"volumes", JArr(<<>>)>> >>), JObj(<<>>)}
    \cup {JObj(<< <<"volumes", JArr(<<v>>)>> >>) : v \in VolumeObjects(1)}
    \cup {JObj(<< <<"volumes", JArr(<<BaseVolume, v>>)>> >>) :
             v \in VolumeObjects(1)}

(* VolumeCreate values are built from VolumeCreate::new(size) by setting   *)
(* public fields.                                                          *)
CreateSizes == {0, 1, 10}

CreateNames == {"", "vol"}

OptionalCreateFields ==
    {VolumeCreateFields[i].name :
        i \in {n \in 1..Len(VolumeCreateFields) : VolumeCreateFields[n].skip}}

CreateFieldValues(name) ==
    CASE name = "metadata" -> {None, Some(<<>>), Some(<< <<"k", "v">> >>)}
      [] name = "description" -> {None, Some(""), Some("x")}
      [] OTHER -> {None, Some("x")}

-----------------------------------------------------------------------------
(* The state machine.  Every codec is a pure function, so a behaviour is   *)
(* one input, drawn at Init, and the calls made on it:                     *)
(*   entry    the codec the behaviour exercises                            *)
(*   input    the value handed to its first call                           *)
(*   pc       how far the calls have got                                   *)
(*   result   what the first decode (or the constructor) returned          *)
(*   output   what encode produced                                         *)
(*   result2  what decoding the output returned                            *)

NotRun == [ok |-> FALSE, run |-> FALSE]

Entries ==
    {"DateTime", "VolumeStatus_decode", "VolumeStatus_encode", "bootable",
     "Volume", "VolumeRoot", "VolumesRoot", "VolumeCreate"}

Inputs(e) ==
    CASE e = "DateTime" -> DateTimeInputs
      [] e = "VolumeStatus_decode" -> VolumeStatusInputs
      [] e = "VolumeStatus_encode" -> VolumeStatusVariants
      [] e = "bootable" -> BootableInputs
      [] e = "Volume" -> VolumeInputs
      [] e = "VolumeRoot" -> VolumeRootInputs
      [] e = "VolumesRoot" -> VolumesRootInputs
      [] e = "VolumeCreate" -> CreateSizes

Init ==
    /\ entry \in Entries
    /\ input \in Inputs(entry)
    /\ pc = "start"
    /\ result = NotRun
    /\ output = NotRun
    /\ result2 = NotRun

DateTimeDeserialize ==
    /\ entry = "DateTime"
    /\ pc = "start"
    /\ result' = DateTime_deserialize(input)
    /\ pc' = "decoded"
    /\ UNCHANGED <<entry, input, output, result2>>

DateTimeSerialize ==
    /\ entry = "DateTime"
    /\ pc = "decoded"
    /\ result.ok
    /\ output' = DateTime_serialize(result.v)
    /\ pc' = "encoded"
    /\ UNCHANGED <<entry, input, result, result2>>

DateTimeDeserializeOutput ==
    /\ entry = "DateTime"
    /\ pc = "encoded"
    /\ result2' = DateTime_deserialize(output)
    /\ pc' = "redecoded"
    /\ UNCHANGED <<entry, input, result, output>>

VolumeStatusDeserialize ==
    /\ entry = "VolumeStatus_decode"
    /\ pc = "start"
    /\ result' = VolumeStatus_deserialize(input)
    /\ pc' = "decoded"
    /\ UNCHANGED <<entry, input, output, result2>>

VolumeStatusSerialize ==
    /\ entry = "VolumeStatus_encode"
    /\ pc = "start"
    /\ output' = VolumeStatus_serialize(input)
    /\ pc' = "encoded"
    /\ UNCHANGED <<entry, input, result, result2>>

VolumeStatusDeserializeOutput ==
    /\ entry = "VolumeStatus_encode"
    /\ pc = "encoded"
    /\ result2' = VolumeStatus_deserialize(output)
    /\ pc' = "redecoded"
    /\ UNCHANGED <<entry, input, result, output>>

BootableDeserialize ==
    /\ entry = "bootable"
    /\ pc = "start"
    /\ result' = bool_from_bootable_string(input)
    /\ pc' = "decoded"
    /\ UNCHANGED <<entry, input, output, result2>>

VolumeDeserialize ==
    /\ entry = "Volume"
    /\ pc = "start"
    /\ result' = Volume_deserialize(input)
    /\ pc' = "decoded"
    /\ UNCHANGED <<entry, input, output, result2>>

VolumeRootDeserialize ==
    /\ entry = "VolumeRoot"
    /\ pc = "start"
    /\ result' = VolumeRoot_deserialize(input)
    /\ pc' = "decoded"
    /\ UNCHANGED <<entry, input, output, result2>>

VolumesRootDeserialize ==
    /\ entry = "VolumesRoot"
    /\ pc = "start"
    /\ result' = VolumesRoot_deserialize(input)
    /\ pc' = "decoded"
    /\ UNCHANGED <<entry, input, output, result2>>

VolumeCreateNew ==
    /\ entry = "VolumeCreate"
    /\ pc = "start"
    /\ result' = Ok(VolumeCreate_new(input))
    /\ pc' = "built"
    /\ UNCHANGED <<entry, input, output, result2>>

(* The caller sets a public field of the value it built.                   *)
VolumeCreateSetField ==
    /\ entry = "VolumeCreate"
    /\ pc = "built"
    /\ \/ \E n \in CreateNames : result' = Ok([result.v EXCEPT !.name = n])
       \/ \E f \in OptionalCreateFields : \E x \in CreateFieldValues(f) :
             result' = Ok([result.v EXCEPT ![f] = x])
    /\ UNCHANGED <<entry, input, pc, output, result2>>

VolumeCreateSerialize ==
    /\ entry = "VolumeCreate"
    /\ pc = "built"
    /\ output' = VolumeCreate_serialize(result.v)
    /\ pc' = "encoded"
    /\ UNCHANGED <<entry, input, result, result2>>

VolumeCreateRootSerialize ==
    /\ entry = "VolumeCreate"
    /\ pc = "built"
    /\ output' = VolumeCreateRoot_serialize(result.v)
    /\ pc' = "encoded_root"
    /\ UNCHANGED <<entry, input, result, result2>>

Next ==
    \/ DateTimeDeserialize
    \/ DateTimeSerialize
    \/ DateTimeDeserializeOutput
    \/ VolumeStatusDeserialize
    \/ VolumeStatusSerialize
    \/ VolumeStatusDeserializeOutput
    \/ BootableDeserialize
    \/ VolumeDeserialize
    \/ VolumeRootDeserialize
    \/ VolumesRootDeserialize
    \/ VolumeCreateNew
    \/ VolumeCreateSetField
    \/ VolumeCreateSerialize
    \/ VolumeCreateRootSerialize

Spec == Init /\ [][Next]_vars

-----------------------------------------------------------------------------
(* Notions the statements below share.                                     *)

IsText(j) == j.t = "str" /\ "chars" \in DOMAIN j

(* The shape YYYY-MM-DDTHH:MM:SS.ffffff: 26 characters, six of them the    *)
(* fraction's digits, no offset.                                           *)
IsSixDigitForm(s) ==
    /\ Len(s) = 26
    /\ s[5] = "-" /\ s[8] = "-" /\ s[11] = "T"
    /\ s[14] = ":" /\ s[17] = ":" /\ s[20] = "."
    /\ \A i \in (1..26) \ {5, 8, 11, 14, 17, 20} : IsDigit(s[i])

(* The same shape up to the seconds, and what follows them.                *)
IsDateTimePrefix(s) ==
    /\ Len(s) >= 19
    /\ s[5] = "-" /\ s[8] = "-" /\ s[11] = "T" /\ s[14] = ":" /\ s[17] = ":"
    /\ \A i \in (1..19) \ {5, 8, 11, 14, 17} : IsDigit(s[i])

AllDigits(s) == \A i \in 1..Len(s) : IsDigit(s[i])

(* An offset-less timestamp whose fraction is missing or has a number of   *)
(* digits other than six.                                                  *)
IsOtherFractionForm(s) ==
    /\ IsDateTimePrefix(s)
    /\ \/ Len(s) = 19
       \/ /\ Len(s) >= 21 /\ Len(s) # 26
          /\ s[20] = "."
          /\ AllDigits(SubSeq(s, 21, Len(s)))

(* An error message quotes the value x.                                    *)
Quotes(err, x) ==
    \/ err.kind = "invalid_value" /\ err.unexpected = x
    \/ /\ err.kind = "custom"
       /\ \E i \in 1..Len(err.msg) :
             "val" \in DOMAIN err.msg[i] /\ err.msg[i].val = x

(* An error message names the key k.                                       *)
NamesKey(err, k) ==
    \/ err.kind \in {"missing_field", "duplicate_field"} /\ err.field = k
    \/ /\ err.kind = "custom"
       /\ \E i \in 1..Len(err.msg) :
             "lit" \in DOMAIN err.msg[i] /\ err.msg[i].lit = k

-----------------------------------------------------------------------------
(* DateTime                                                                *)

(* C2: an offset-less timestamp YYYY-MM-DDTHH:MM:SS.ffffff decodes to the  *)
(* WithoutTz variant, and encoding that value gives the very same          *)
(* characters back: encode(decode(x)) = x.                                 *)
C2_SixDigitRoundTrip ==
    (entry = "DateTime" /\ IsText(input) /\ IsSixDigitForm(input.chars)) =>
        /\ (pc = "decoded" /\ result.ok) => result.v.variant = "WithoutTz"
        /\ pc \in {"encoded", "redecoded"} => output.chars = input.chars

(* The text has no offset: it ends in a digit, holds no Z and no +, and no *)
(* - after the T.                                                          *)
HasNoOffset(s) ==
    /\ Len(s) >= 1
    /\ IsDigit(s[Len(s)])
    /\ \A i \in 1..Len(s) : s[i] \notin {"Z", "z", "+"}
    /\ \A i \in 1..Len(s) : \A k \in 1..Len(s) :
          (s[i] = "T" /\ k > i) => s[k] # "-"

(* The seconds east of UTC that the text's last six characters, +HH:MM or  *)
(* -HH:MM, give; a number no offset has when they are no offset.           *)
SuffixOffset(s) ==
    LET n == Len(s)
    IN  IF /\ n >= 6
           /\ s[n - 5] \in {"+", "-"}
           /\ s[n - 2] = ":"
           /\ \A i \in {n - 4, n - 3, n - 1, n} : IsDigit(s[i])
        THEN (IF s[n - 5] = "-" THEN -1 ELSE 1)
             * ((DigitVal(s[n - 4]) * 10 + DigitVal(s[n - 3])) * 3600
                + (DigitVal(s[n - 1]) * 10 + DigitVal(s[n])) * 60)
        ELSE 100 * MAX_RFC3339_OFFSET

(* C3: encoding keeps the shape.  What encode makes of a decoded value is  *)
(* accepted again and decodes to an equal value of the same variant; a     *)
(* WithTz value's text carries the value's offset and denotes the same     *)
(* instant; a WithoutTz value's text has no offset and no Z.               *)
C3_ShapePreserved ==
    entry = "DateTime" =>
        /\ pc \in {"encoded", "redecoded"} =>
              /\ IsText(output)
              /\ result.v.variant = "WithoutTz" => HasNoOffset(output.chars)
              /\ result.v.variant = "WithTz" =>
                    SuffixOffset(output.chars) = result.v.offset
        /\ pc = "redecoded" =>
              /\ result2.ok
              /\ result2.v.variant = result.v.variant
              /\ result2.v = result.v

(* A timestamp with the offset -05:30 whose text encode changed has been   *)
(* decoded again.                                                          *)
C3_Witness ==
    /\ entry = "DateTime" /\ pc = "redecoded"
    /\ result.v.variant = "WithTz"
    /\ result.v.offset = 0 - (5 * 3600 + 30 * 60)
    /\ output.chars # input.chars
    /\ result2.ok

(* C8 as it stands: a string that matches neither form is refused with the *)
(* error "invalid date format", and the error carries the refused string.  *)
C8_ErrorCarriesString ==
    (entry = "DateTime" /\ pc = "decoded" /\ IsText(input) /\ ~result.ok) =>
        /\ NamesKey(result.err, "invalid date format")
        /\ Quotes(result.err, input.chars)

(* C8: a string that matches neither form is refused with the error whose  *)
(* whole message is "invalid date format"; the refused string is not part  *)
(* of it.                                                                  *)
C8_FixedMessage ==
    (entry = "DateTime" /\ pc = "decoded" /\ IsText(input) /\ ~result.ok) =>
        /\ result.err = Custom(<<[lit |-> "invalid date format"]>>)
        /\ ~Quotes(result.err, input.chars)

(* "not-a-date" has been refused.                                          *)
C8_Witness ==
    /\ entry = "DateTime" /\ pc = "decoded" /\ IsText(input)
    /\ input.chars = <<"n", "o", "t", "-", "a", "-", "d", "a", "t", "e">>
    /\ ~result.ok

(* C9: the RFC 3339 form is tried first and gives WithTz; a string it      *)
(* refuses is WithoutTz only if it is YYYY-MM-DDTHH:MM:SS. and exactly six *)
(* digits; an offset-less timestamp with no fraction, or with a number of  *)
(* fraction digits other than six, is refused.                             *)
C9_ExactlySixDigits ==
    (entry = "DateTime" /\ pc = "decoded" /\ IsText(input)) =>
        /\ parse_from_rfc3339(input.chars).ok =>
              result.ok /\ result.v.variant = "WithTz"
        /\ (result.ok /\ result.v.variant = "WithoutTz") =>
              IsSixDigitForm(input.chars)
        /\ IsOtherFractionForm(input.chars) => ~result.ok

-----------------------------------------------------------------------------
(* VolumeStatus                                                            *)

(* C4: VolumeStatus has 20 variants with 20 different wire strings.  A     *)
(* variant encodes to its wire string and that decodes to the variant; a   *)
(* wire string decodes to a variant that encodes to it; every other string *)
(* is refused, a different case or a space around a wire string included.  *)
C4_VolumeStatusRoundTrip ==
    /\ Len(VolumeStatusTable) = 20
    /\ Cardinality(VolumeStatusVariants) = 20
    /\ Cardinality(VolumeStatusWireStrings) = 20
    /\ (entry = "VolumeStatus_encode" /\ pc \in {"encoded", "redecoded"}) =>
          output.t = "str" /\ output.text \in VolumeStatusWireStrings
    /\ (entry = "VolumeStatus_encode" /\ pc = "redecoded") =>
          result2 = Ok(input)
    /\ (entry = "VolumeStatus_decode" /\ pc = "decoded" /\ input.t = "str") =>
          /\ result.ok <=> input.text \in VolumeStatusWireStrings
          /\ result.ok => VolumeStatus_serialize(result.v) = input
          /\ input.text \in {"In-Use", "IN-USE", "in_use", "Available",
                             " available", "available ", ""} => ~result.ok

(* ErrorBackingUp went out as "error_backing-up" and came back.            *)
C4_Witness ==
    /\ entry = "VolumeStatus_encode" /\ pc = "redecoded"
    /\ input = "ErrorBackingUp"
    /\ output = JStr("error_backing-up")
    /\ result2.ok

-----------------------------------------------------------------------------
(* bool_from_bootable_string                                               *)

(* C5: the string "true" decodes to true and "false" to false; every other *)
(* string is refused with an error that carries the string.                *)
C5_BootableExact ==
    (entry = "bootable" /\ pc = "decoded" /\ input.t = "str") =>
        /\ input.text = "true" => result = Ok(TRUE)
        /\ input.text = "false" => result = Ok(FALSE)
        /\ input.text \notin {"true", "false"} =>
              ~result.ok /\ Quotes(result.err, input.text)

(* "True" has been refused.                                                *)
C5_Witness ==
    /\ entry = "bootable" /\ pc = "decoded" /\ input.t = "str"
    /\ input.text = "True"
    /\ ~result.ok

-----------------------------------------------------------------------------
(* VolumeCreate                                                            *)

(* The wire key of each optional field of a volume-create request.         *)
CreateWireKey ==
    [availability_zone |-> "availability_zone",
     source_volume_id |-> "source_volid",
     description |-> "description",
     snapshot_id |-> "snapshot_id",
     backup_id |-> "backup_id",
     image_id |-> "imageRef",
     volume_type |-> "volume_type",
     metadata |-> "metadata",
     consistency_group_id |-> "consistency_group_id"]

(* The encoded request object, alone or under the root's key "volume".     *)
CreateObject == IF pc = "encoded" THEN output ELSE Get(output, "volume")

CreateKeys == {CreateObject.entries[i][1] : i \in 1..Len(CreateObject.entries)}

(* C1: the encoded request always has "size" and "name", has an optional   *)
(* field's key exactly when the field is Some, each key once, and no null; *)
(* new(10) encodes to {"size":10,"name":""}.                               *)
C1_CreateKeySet ==
    (entry = "VolumeCreate" /\ pc \in {"encoded", "encoded_root"}) =>
        /\ pc = "encoded_root" =>
              Len(output.entries) = 1 /\ output.entries[1][1] = "volume"
        /\ CreateKeys = {"size", "name"} \cup
              {CreateWireKey[f] : f \in {g \in DOMAIN CreateWireKey :
                                            result.v[g].some}}
        /\ Len(CreateObject.entries) = Cardinality(CreateKeys)
        /\ \A i \in 1..Len(CreateObject.entries) :
              CreateObject.entries[i][2].t # "null"
        /\ Get(CreateObject, "size") = JNum(result.v.size)
        /\ Get(CreateObject, "name") = JStr(result.v.name)
        /\ \A f \in DOMAIN CreateWireKey \ {"metadata"} :
              result.v[f].some =>
                 Get(CreateObject, CreateWireKey[f]) = JStr(result.v[f].v)
        /\ result.v = VolumeCreate_new(10) =>
              CreateObject = JObj(<< <<"size", JNum(10)>>, <<"name", JStr("")>> >>)

(* A request of size 10 with no name, with an image and no description,    *)
(* has been encoded.                                                       *)
C1_Witness ==
    /\ entry = "VolumeCreate" /\ pc = "encoded"
    /\ result.v.size = 10 /\ result.v.name = ""
    /\ result.v.image_id.some /\ ~result.v.description.some
    /\ HasKey(output, "imageRef")

-----------------------------------------------------------------------------
(* Volume                                                                  *)

(* The keys a volume object has to have.                                   *)
VolumeRequiredKeys ==
    {"id", "name", "user_id", "size", "encrypted", "multiattach", "bootable",
     "volume_type", "created_at", "status", "metadata", "attachments", "links"}

(* The keys whose values have a decoder of their own.                      *)
SubDecodedKeys ==
    {"status", "bootable", "created_at", "updated_at", "attachments", "links",
     "volumes"}

ScalarSubDecodedKeys == {"status", "bootable", "created_at", "updated_at"}

FieldOfKey(fields, k) ==
    fields[CHOOSE n \in 1..Len(fields) : fields[n].key = k]

IsFieldKey(fields, k) == \E n \in 1..Len(fields) : fields[n].key = k

(* Whether a JSON value is a valid value of a type, said without the       *)
(* decoders: by the value's kind, and for a struct by its keys.            *)
RECURSIVE ValidValue(_, _)

(* A field's value is valid: a valid value of the type, or null where the  *)
(* field is optional.                                                      *)
ValidField(f, j) == (f.opt /\ j.t = "null") \/ ValidValue(f.ty, j)

ValidObject(fields, j) ==
    /\ j.t = "obj"
    /\ \A k \in RequiredKeys(fields) : HasKey(j, k)
    /\ \A i \in 1..Len(j.entries) :
          IsFieldKey(fields, j.entries[i][1]) =>
             /\ \A m \in 1..Len(j.entries) :
                   j.entries[m][1] = j.entries[i][1] => m = i
             /\ ValidField(FieldOfKey(fields, j.entries[i][1]), j.entries[i][2])

ValidValue(ty, j) ==
    CASE ty = "String" -> j.t = "str"
      [] ty = "bool" -> j.t = "bool"
      [] ty = "u64" -> j.t = "num" /\ j.n >= 0
      [] ty = "DateTime" ->
            /\ j.t = "str"
            /\ \/ parse_from_rfc3339(StrOf(j)).ok
               \/ parse_from_str(StrOf(j)).ok
      [] ty = "VolumeStatus" ->
            j.t = "str" /\ StrOf(j) \in VolumeStatusWireStrings
      [] ty = "bool_from_bootable_string" ->
            j.t = "str" /\ StrOf(j) \in {"true", "false"}
      [] ty = "HashMap" ->
            /\ j.t = "obj"
            /\ \A i \in 1..Len(j.entries) : j.entries[i][2].t = "str"
      [] IsVec(ty) ->
            /\ j.t = "arr"
            /\ \A i \in 1..Len(j.elems) : ValidValue(ElemType(ty), j.elems[i])
      [] IsStruct(ty) -> ValidObject(StructFields(ty), j)

(* The volume objects of the input and what each decoded to, as pairs.     *)
InputVolumes ==
    CASE entry = "Volume" -> {input}
      [] entry = "VolumeRoot" ->
            IF HasKey(input, "volume") THEN {Get(input, "volume")} ELSE {}
      [] entry = "VolumesRoot" ->
            IF HasKey(input, "volumes")
            THEN {Get(input, "volumes").elems[i] :
                     i \in 1..Len(Get(input, "volumes").elems)}
            ELSE {}

DecodedVolumes ==
    CASE entry = "Volume" -> {<<input, result.v>>}
      [] entry = "VolumeRoot" -> {<<Get(input, "volume"), result.v.volume>>}
      [] entry = "VolumesRoot" ->
            {<<Get(input, "volumes").elems[i], result.v.volumes[i]>> :
                i \in 1..Len(result.v.volumes)}

VolumeEntry == entry \in {"Volume", "VolumeRoot", "VolumesRoot"}

MissingKeys(o) == {k \in VolumeRequiredKeys : ~HasKey(o, k)}

(* The keys of o under which a value stands that its own decoder refuses.  *)
InvalidKeys(o, keys) ==
    {k \in keys : \E i \in 1..Len(o.entries) :
        /\ o.entries[i][1] = k
        /\ ~ValidField(FieldOfKey(VolumeFields, k), o.entries[i][2])}

(* A volume object that lacks a required key or holds a value that its     *)
(* status, bootable, timestamp or nested decoder refuses.                  *)
Defective(o) ==
    o.t = "obj" /\ (MissingKeys(o) # {} \/ InvalidKeys(o, SubDecodedKeys) # {})

(* C6 as it stands: a volume object that lacks one of the 13 required keys *)
(* or holds a status, bootable string or timestamp that its decoder        *)
(* refuses is refused as a whole, with an error that names the offending   *)
(* field.                                                                  *)
C6_ErrorNamesField ==
    (/\ entry = "Volume" /\ pc = "decoded" /\ input.t = "obj"
     /\ \A k \in (OptionalKeys(VolumeFields) \cup VolumeRequiredKeys)
                  \ ScalarSubDecodedKeys : InvalidKeys(input, {k}) = {}
     /\ \A i \in 1..Len(input.entries) : \A m \in 1..Len(input.entries) :
           input.entries[i][1] = input.entries[m][1] => i = m
     /\ InvalidKeys(input, {"status"}) = {}
     /\ MissingKeys(input) \cup InvalidKeys(input, ScalarSubDecodedKeys) # {}) =>
        /\ ~result.ok
        /\ \E k \in MissingKeys(input) \cup InvalidKeys(input, ScalarSubDecodedKeys) :
              NamesKey(result.err, k)

(* No key of a field stands twice in the object.                           *)
NoRepeats(o) ==
    \A i \in 1..Len(o.entries) : \A m \in 1..Len(o.entries) :
        o.entries[i][1] = o.entries[m][1] => i = m

VolumeKeys == OptionalKeys(VolumeFields) \cup VolumeRequiredKeys

(* The value under k is the object's only flaw.                            *)
OnlyFlaw(o, k) ==
    /\ MissingKeys(o) = {}
    /\ NoRepeats(o)
    /\ InvalidKeys(o, {k}) = {k}
    /\ \A other \in VolumeKeys \ {k} : InvalidKeys(o, {other}) = {}

(* C6: decoding a volume is all or nothing.  The required keys are the 13  *)
(* named; an object that lacks one of them, or holds a value its status,   *)
(* bootable, timestamp or nested decoder refuses, alone or inside a root   *)
(* object, gives an error and no value.  The error names a field only when *)
(* a key is missing or repeated: with every present value valid it is      *)
(* "missing field" with a missing key; a refused bootable string gives the *)
(* error that carries the string, a refused timestamp the error "invalid   *)
(* date format", and neither names a key of the object.                    *)
C6_AllOrNothing ==
    /\ RequiredKeys(VolumeFields) = VolumeRequiredKeys
    /\ (VolumeEntry /\ pc = "decoded" /\ input.t = "obj") =>
          ((\E o \in InputVolumes : Defective(o)) =>
              (~result.ok /\ "v" \notin DOMAIN result))
    /\ (entry = "Volume" /\ pc = "decoded" /\ input.t = "obj") =>
          /\ (/\ MissingKeys(input) # {}
              /\ NoRepeats(input)
              /\ \A k \in VolumeKeys : InvalidKeys(input, {k}) = {}) =>
                \E k \in MissingKeys(input) : result.err = MissingField(k)
          /\ (OnlyFlaw(input, "bootable") /\ Get(input, "bootable").t = "str") =>
                /\ result.err =
                      InvalidValue(StrOf(Get(input, "bootable")), "true or false")
                /\ \A k \in VolumeKeys : ~NamesKey(result.err, k)
          /\ \A d \in {"created_at", "updated_at"} :
                (OnlyFlaw(input, d) /\ Get(input, d).t = "str") =>
                   /\ result.err = Custom(<<[lit |-> "invalid date format"]>>)
                   /\ \A k \in VolumeKeys : ~NamesKey(result.err, k)

(* A volume whose bootable is "yes", all else valid, has been refused with *)
(* the bootable decoder's error.                                           *)
C6_Witness ==
    /\ entry = "Volume" /\ pc = "decoded" /\ input.t = "obj"
    /\ OnlyFlaw(input, "bootable")
    /\ Get(input, "bootable") = JStr("yes")
    /\ ~result.ok
    /\ result.err = InvalidValue("yes", "true or false")

(* The absent optional keys of each decoded volume are None.               *)
AbsentAreNone ==
    \A p \in DecodedVolumes : \A i \in 1..Len(VolumeFields) :
        (/\ VolumeFields[i].key \notin VolumeRequiredKeys
         /\ ~HasKey(p[1], VolumeFields[i].key)) =>
            p[2][VolumeFields[i].name] = None

(* Empty attachments and links arrays are empty sequences.                 *)
EmptyArePresent ==
    \A p \in DecodedVolumes :
        /\ Get(p[1], "attachments").elems = <<>> => p[2].attachments = <<>>
        /\ Get(p[1], "links").elems = <<>> => p[2].links = <<>>

(* Every required key is there with a valid value.                         *)
RequiredValid(o) ==
    /\ o.t = "obj"
    /\ \A k \in VolumeRequiredKeys :
          /\ HasKey(o, k)
          /\ \A i \in 1..Len(o.entries) :
                o.entries[i][1] = k =>
                   ValidValue(FieldOfKey(VolumeFields, k).ty, o.entries[i][2])

(* C7 as it stands: a volume object whose required keys are all there and  *)
(* valid decodes; its absent optional keys are None; its empty arrays are  *)
(* empty sequences.                                                        *)
C7_RequiredSuffice ==
    (entry = "Volume" /\ pc = "decoded" /\ RequiredValid(input)) =>
        result.ok /\ AbsentAreNone /\ EmptyArePresent

(* C7: a volume object whose required keys are all there and valid, whose  *)
(* optional keys hold valid values or null, and which has no field's key   *)
(* twice decodes, alone or inside a root object; its absent optional keys  *)
(* are None; its empty arrays are empty sequences.                         *)
C7_ValidDecodes ==
    (VolumeEntry /\ pc = "decoded" /\ ValidValue(entry, input)) =>
        result.ok /\ AbsentAreNone /\ EmptyArePresent

(* A valid volume with a description and with no updated_at has decoded.   *)
C7_Witness ==
    /\ entry = "Volume" /\ pc = "decoded"
    /\ ValidValue("Volume", input)
    /\ HasKey(input, "description") /\ ~HasKey(input, "updated_at")
    /\ result.ok
    /\ result.v.updated_at = None
    /\ result.v.description.some
    /\ result.v.attachments = <<>>

(* The keys of a volume's boolean fields other than bootable.              *)
NativeBoolKeys == {"encrypted", "multiattach", "shared_targets", "consumes_quota"}

(* C10: bootable is decoded from the strings "true" and "false" and a      *)
(* native boolean under it is refused; encrypted, multiattach,             *)
(* shared_targets and consumes_quota are decoded from native booleans and  *)
(* a string under them is refused.                                         *)
C10_BooleanCodecs ==
    (entry = "Volume" /\ pc = "decoded" /\ input.t = "obj") =>
        /\ \A i \in 1..Len(input.entries) :
              /\ (input.entries[i][1] = "bootable"
                  /\ input.entries[i][2].t = "bool") => ~result.ok
              /\ (input.entries[i][1] \in NativeBoolKeys
                  /\ input.entries[i][2].t = "str") => ~result.ok
        /\ result.ok =>
              /\ result.v.bootable = (StrOf(Get(input, "bootable")) = "true")
              /\ result.v.encrypted = Get(input, "encrypted").b
              /\ result.v.multi_attachable = Get(input, "multiattach").b
              /\ (HasKey(input, "shared_targets")
                  /\ Get(input, "shared_targets").t = "bool") =>
                    result.v.shared_targets = Some(Get(input, "shared_targets").b)
              /\ (HasKey(input, "consumes_quota")
                  /\ Get(input, "consumes_quota").t = "bool") =>
                    result.v.consumes_quota = Some(Get(input, "consumes_quota").b)

(* A volume whose only flaw is the string "true" under shared_targets has  *)
(* been refused.                                                           *)
C10_Witness ==
    /\ entry = "Volume" /\ pc = "decoded" /\ input.t = "obj"
    /\ HasKey(input, "shared_targets")
    /\ Get(input, "shared_targets").t = "str"
    /\ ValidValue("Volume", Set(input, "shared_targets", JBool(TRUE)))
    /\ ~result.ok

=============================================================================
